---- MODULE Spec2Model ----
(***************************************************************************)
(* Model of the configuration bootstrap and the GitHub API facade of       *)
(* flower.py (class GitHubTermuxCommander, main and the __main__ guard)    *)
(* and of the menu loop and __main__ guard of gh.py.                       *)
(*                                                                         *)
(* A Python str is a sequence of code points, a bytes value a sequence of  *)
(* numbers 0..255.  A 32-bit word of SHA-256 is a pair <<hi, lo>> of its   *)
(* two 16-bit halves, so that every number fits a 32-bit integer.          *)
(***************************************************************************)
EXTENDS Integers, Sequences, FiniteSets, TLC

(***************************************************************************)
(* Strings and bytes                                                       *)
(***************************************************************************)

\* 2^n for the small n used below
RECURSIVE Pow2(_)
Pow2(n) == IF n = 0 THEN 1 ELSE 2 * Pow2(n - 1)

\* str.encode(): UTF-8 of a sequence of code points (below 0x10000)
RECURSIVE encode(_)
encode(s) ==
    IF s = <<>> THEN <<>>
    ELSE LET c == Head(s)
             b == IF c < 128 THEN <<c>>
                  ELSE IF c < 2048
                       THEN <<192 + (c \div 64), 128 + (c % 64)>>
                       ELSE <<224 + (c \div 4096),
                              128 + ((c \div 64) % 64),
                              128 + (c % 64)>>
         IN  b \o encode(Tail(s))

\* the characters str.strip() removes (space, \t, \n, \v, \f, \r)
Whitespace == {32, 9, 10, 11, 12, 13}

RECURSIVE lstrip(_)
lstrip(s) ==
    IF s # <<>> /\ Head(s) \in Whitespace THEN lstrip(Tail(s)) ELSE s

RECURSIVE rstrip(_)
rstrip(s) ==
    IF s # <<>> /\ s[Len(s)] \in Whitespace
    THEN rstrip(SubSeq(s, 1, Len(s) - 1)) ELSE s

\* str.strip()
strip(s) == rstrip(lstrip(s))

\* s[:n] of a Python sequence
Prefix(s, n) == SubSeq(s, 1, IF Len(s) < n THEN Len(s) ELSE n)

(***************************************************************************)
(* What is typed at the prompts and passed to _encrypt_data                *)
(***************************************************************************)

\* "octocat" and ' jo"se\ ' (with e-acute): lines typed at the username prompt
TypedUsernames ==
    {<<111, 99, 116, 111, 99, 97, 116>>,
     <<32, 106, 111, 34, 115, 233, 92, 32>>}

\* "abc123", " pa(umlaut)sswd\t" and a 40-character token: lines typed at
\* the token prompt
TypedTokens ==
    {<<97, 98, 99, 49, 50, 51>>,
     <<32, 112, 228, 115, 115, 119, 100, 9>>,
     <<103, 104, 112, 95, 97, 49, 66, 50, 97, 49, 66, 50, 97, 49, 66, 50, 97,
       49, 66, 50, 97, 49, 66, 50, 97, 49, 66, 50, 97, 49, 66, 50, 97, 49, 66,
       50, 97, 49, 66, 50>>}

\* the strings a client passes to _encrypt_data: what is typed at the token
\* prompt, with and without the surrounding blanks, and the empty string
EncryptInputs == TypedTokens \cup {strip(t) : t \in TypedTokens} \cup {<<>>}

(***************************************************************************)
(* hashlib.sha256 (FIPS 180-4), on words <<hi, lo>>                        *)
(***************************************************************************)

\* Every operation below is a function, so that its arguments are values
\* when its body is evaluated.

\* a 16-bit half and a 32-bit word
Half == 0..65535
Word == Half \X Half

\* bitwise exclusive or and bitwise and of two natural numbers
Xor[a \in Nat, b \in Nat] ==
    IF a = 0 THEN b
    ELSE IF b = 0 THEN a
    ELSE ((a + b) % 2) + 2 * Xor[a \div 2, b \div 2]

And[a \in Nat, b \in Nat] ==
    IF a = 0 \/ b = 0 THEN 0
    ELSE ((a % 2) * (b % 2)) + 2 * And[a \div 2, b \div 2]

WXor[x \in Word, y \in Word] == <<Xor[x[1], y[1]], Xor[x[2], y[2]]>>
WAnd[x \in Word, y \in Word] == <<And[x[1], y[1]], And[x[2], y[2]]>>
WNot[x \in Word] == <<65535 - x[1], 65535 - x[2]>>

\* addition modulo 2^32
WAdd[x \in Word, y \in Word] ==
    <<(x[1] + y[1] + ((x[2] + y[2]) \div 65536)) % 65536, (x[2] + y[2]) % 65536>>

\* the two halves of a word exchanged: a rotation by 16
Swap[x \in Word] == <<x[2], x[1]>>

\* rotate right by k, 0 < k < 16, where p = 2^k and q = 2^(16-k)
RotHalf[x \in Word, p \in Nat, q \in Nat] ==
    <<(x[1] \div p) + (x[2] % p) * q, (x[2] \div p) + (x[1] % p) * q>>

\* rotate right by n, 0 < n < 32
RotR[x \in Word, n \in 1..31] ==
    IF n = 16 THEN Swap[x]
    ELSE IF n > 16 THEN RotHalf[Swap[x], Pow2(n - 16), Pow2(32 - n)]
    ELSE RotHalf[x, Pow2(n), Pow2(16 - n)]

\* shift right by n, 0 < n < 16
ShR[x \in Word, n \in 1..15] ==
    <<x[1] \div Pow2(n), (x[2] \div Pow2(n)) + (x[1] % Pow2(n)) * Pow2(16 - n)>>

SHA_K ==
    <<<<17034, 12184>>, <<28983, 17553>>, <<46528, 64463>>, <<59829, 56229>>,
      <<14678, 49755>>, <<23025, 4593>>, <<37439, 33444>>, <<43804, 24277>>,
      <<55303, 43672>>, <<4739, 23297>>, <<9265, 34238>>, <<21772, 32195>>,
      <<29374, 23924>>, <<32990, 45566>>, <<39900, 1703>>, <<49563, 61812>>,
      <<58523, 27073>>, <<61374, 18310>>, <<4033, 40390>>, <<9228, 41420>>,
      <<11753, 11375>>, <<19060, 33962>>, <<23728, 43484>>, <<30457, 35034>>,
      <<38974, 20818>>, <<43057, 50797>>, <<45059, 10184>>, <<48985, 32711>>,
      <<50912, 3059>>, <<54695, 37191>>, <<1738, 25425>>, <<5161, 10599>>,
      <<10167, 2693>>, <<11803, 8504>>, <<19756, 28156>>, <<21304, 3347>>,
      <<25866, 29524>>, <<30314, 2747>>, <<33218, 51502>>, <<37490, 11397>>,
      <<41663, 59553>>, <<43034, 26187>>, <<49739, 35696>>, <<51052, 20899>>,
      <<53650, 59417>>, <<54937, 1572>>, <<62478, 13701>>, <<4202, 41072>>,
      <<6564, 49430>>, <<7735, 27656>>, <<10056, 30540>>, <<13488, 48309>>,
      <<14620, 3251>>, <<20184, 43594>>, <<23452, 51791>>, <<26670, 28659>>,
      <<29839, 33518>>, <<30885, 25455>>, <<33992, 30740>>, <<36039, 520>>,
      <<37054, 65530>>, <<42064, 27883>>, <<48889, 41975>>, <<50801, 30962>>>>

SHA_H0 ==
    <<<<27145, 58983>>, <<47975, 44677>>, <<15470, 62322>>, <<42319, 62778>>,
      <<20750, 21119>>, <<39685, 26764>>, <<8067, 55723>>, <<23520, 52505>>>>

BigSigma0[x \in Word] == WXor[WXor[RotR[x, 2], RotR[x, 13]], RotR[x, 22]]
BigSigma1[x \in Word] == WXor[WXor[RotR[x, 6], RotR[x, 11]], RotR[x, 25]]
SmallSigma0[x \in Word] == WXor[WXor[RotR[x, 7], RotR[x, 18]], ShR[x, 3]]
SmallSigma1[x \in Word] == WXor[WXor[RotR[x, 17], RotR[x, 19]], ShR[x, 10]]
Ch[x \in Word, y \in Word, z \in Word] == WXor[WAnd[x, y], WAnd[WNot[x], z]]
Maj[x \in Word, y \in Word, z \in Word] ==
    WXor[WXor[WAnd[x, y], WAnd[x, z]], WAnd[y, z]]

\* n zero bytes
Zeros[n \in Nat] == IF n = 0 THEN <<>> ELSE <<0>> \o Zeros[n - 1]

\* the message padded to a multiple of 64 bytes: 0x80, zeros, 64-bit bit length
ShaPad[msg \in Seq(0..255)] ==
    msg \o <<128>> \o Zeros[(119 - (Len(msg) % 64)) % 64] \o Zeros[4]
        \o <<((Len(msg) * 8) \div 16777216) % 256, ((Len(msg) * 8) \div 65536) % 256,
             ((Len(msg) * 8) \div 256) % 256, (Len(msg) * 8) % 256>>

\* the big-endian words i..16 of block number blk (from 0) of the padded message
ShaBlockWords[p \in Seq(0..255), blk \in Nat, i \in 1..17] ==
    IF i > 16 THEN <<>>
    ELSE <<<<p[blk * 64 + (i - 1) * 4 + 1] * 256 + p[blk * 64 + (i - 1) * 4 + 2],
             p[blk * 64 + (i - 1) * 4 + 3] * 256 + p[blk * 64 + (i - 1) * 4 + 4]>>>>
             \o ShaBlockWords[p, blk, i + 1]

\* the message schedule, extended from 16 to 64 words
ShaSchedule[w \in Seq(Word)] ==
    IF Len(w) >= 64 THEN w
    ELSE ShaSchedule[Append(w,
             WAdd[WAdd[SmallSigma1[w[Len(w) - 1]], w[Len(w) - 6]],
                  WAdd[SmallSigma0[w[Len(w) - 14]], w[Len(w) - 15]]])]

\* T1 and T2 of one round on the working variables v = a..h
ShaT1[v \in Seq(Word), wt \in Word, kt \in Word] ==
    WAdd[WAdd[WAdd[v[8], BigSigma1[v[5]]], WAdd[Ch[v[5], v[6], v[7]], kt]], wt]

ShaT2[v \in Seq(Word)] == WAdd[BigSigma0[v[1]], Maj[v[1], v[2], v[3]]]

\* the working variables after a round with the given T1 and T2
ShaStep[v \in Seq(Word), t1 \in Word, t2 \in Word] ==
    <<WAdd[t1, t2], v[1], v[2], v[3], WAdd[v[4], t1], v[5], v[6], v[7]>>

\* rounds t..64 of the compression function
ShaRounds[v \in Seq(Word), w \in Seq(Word), t \in 1..65] ==
    IF t > 64 THEN v
    ELSE ShaRounds[ShaStep[v, ShaT1[v, w[t], SHA_K[t]], ShaT2[v]], w, t + 1]

\* the hash value h with the working variables v added
ShaAdd[h \in Seq(Word), v \in Seq(Word)] ==
    <<WAdd[h[1], v[1]], WAdd[h[2], v[2]], WAdd[h[3], v[3]], WAdd[h[4], v[4]],
      WAdd[h[5], v[5]], WAdd[h[6], v[6]], WAdd[h[7], v[7]], WAdd[h[8], v[8]]>>

\* the hash value after the blocks from number blk on
ShaBlocks[h \in Seq(Word), p \in Seq(0..255), blk \in Nat] ==
    IF blk * 64 >= Len(p) THEN h
    ELSE ShaBlocks[ShaAdd[h, ShaRounds[h, ShaSchedule[ShaBlockWords[p, blk, 1]], 1]],
                   p, blk + 1]

\* the bytes of a sequence of words, big-endian
WordBytes[ws \in Seq(Word)] ==
    IF ws = <<>> THEN <<>>
    ELSE <<ws[1][1] \div 256, ws[1][1] % 256, ws[1][2] \div 256, ws[1][2] % 256>>
             \o WordBytes[Tail(ws)]

\* the 32 bytes of the SHA-256 digest of msg
Sha256Digest(msg) == WordBytes[ShaBlocks[SHA_H0, ShaPad[msg], 0]]

\* "github_termux_salt_2024"
salt ==
    <<103, 105, 116, 104, 117, 98, 95, 116, 101, 114, 109, 117, 120, 95, 115,
      97, 108, 116, 95, 50, 48, 50, 52>>

\* hashlib.sha256(msg).digest()
sha256(msg) == Sha256Digest(msg)

(***************************************************************************)
(* base64.b64encode                                                        *)
(***************************************************************************)

\* "ABC...XYZabc...xyz0123456789+/" as code points
B64Alphabet ==
    <<65, 66, 67, 68, 69, 70, 71, 72, 73, 74, 75, 76, 77, 78, 79, 80, 81, 82,
      83, 84, 85, 86, 87, 88, 89, 90, 97, 98, 99, 100, 101, 102, 103, 104, 105,
      106, 107, 108, 109, 110, 111, 112, 113, 114, 115, 116, 117, 118, 119,
      120, 121, 122, 48, 49, 50, 51, 52, 53, 54, 55, 56, 57, 43, 47>>

\* '=' pads the last group
RECURSIVE b64encode(_)
b64encode(b) ==
    IF b = <<>> THEN <<>>
    ELSE IF Len(b) = 1
    THEN <<B64Alphabet[(b[1] \div 4) + 1],
           B64Alphabet[(b[1] % 4) * 16 + 1], 61, 61>>
    ELSE IF Len(b) = 2
    THEN <<B64Alphabet[(b[1] \div 4) + 1],
           B64Alphabet[(b[1] % 4) * 16 + (b[2] \div 16) + 1],
           B64Alphabet[(b[2] % 16) * 4 + 1], 61>>
    ELSE <<B64Alphabet[(b[1] \div 4) + 1],
           B64Alphabet[(b[1] % 4) * 16 + (b[2] \div 16) + 1],
           B64Alphabet[(b[2] % 16) * 4 + (b[3] \div 64) + 1],
           B64Alphabet[(b[3] % 64) + 1]>>
             \o b64encode(SubSeq(b, 4, Len(b)))

(***************************************************************************)
(* GitHubTermuxCommander._encrypt_data                                     *)
(***************************************************************************)

\* the length the encoded digest is cut to
TokenLen == 32

\* the digest encoded and not cut: the body without the slice [:32]
EncryptBodyUnsliced(data) == b64encode(sha256(encode(data \o salt)))

\* the body of _encrypt_data
EncryptBody(data) ==
    Prefix(b64encode(sha256(encode(data \o salt))), TokenLen)

\* the results for the strings the model passes, computed once
EncryptTable == [d \in EncryptInputs |-> EncryptBody(d)]

_encrypt_data(data) ==
    IF data \in EncryptInputs THEN EncryptTable[data] ELSE EncryptBody(data)

(***************************************************************************)
(* json.dump / json.load of the profile document                           *)
(***************************************************************************)

\* "0123456789abcdef"
HexDigits ==
    <<48, 49, 50, 51, 52, 53, 54, 55, 56, 57, 97, 98, 99, 100, 101, 102>>

\* the value of a hexadecimal digit (either case), -1 for any other character
HexValue(c) ==
    IF c >= 48 /\ c <= 57 THEN c - 48
    ELSE IF c >= 97 /\ c <= 102 THEN c - 87
    ELSE IF c >= 65 /\ c <= 70 THEN c - 55
    ELSE -1

\* json.dumps of one character of a str (ensure_ascii is the default)
JsonEscapeChar(c) ==
    IF c = 34 THEN <<92, 34>>
    ELSE IF c = 92 THEN <<92, 92>>
    ELSE IF c = 10 THEN <<92, 110>>
    ELSE IF c = 13 THEN <<92, 114>>
    ELSE IF c = 9 THEN <<92, 116>>
    ELSE IF c = 8 THEN <<92, 98>>
    ELSE IF c = 12 THEN <<92, 102>>
    ELSE IF c < 32 \/ c > 127
    THEN <<92, 117, HexDigits[(c \div 4096) + 1], HexDigits[((c \div 256) % 16) + 1],
           HexDigits[((c \div 16) % 16) + 1], HexDigits[(c % 16) + 1]>>
    ELSE <<c>>

RECURSIVE JsonEscape(_)
JsonEscape(s) ==
    IF s = <<>> THEN <<>> ELSE JsonEscapeChar(Head(s)) \o JsonEscape(Tail(s))

\* json.dumps(s) of a str s: the JSON text of the string
json_dumps_str(s) == <<34>> \o JsonEscape(s) \o <<34>>

\* the characters between the quotes of a JSON string, unescaped
RECURSIVE JsonUnescape(_)
JsonUnescape(t) ==
    IF t = <<>> THEN <<>>
    ELSE IF Head(t) # 92 THEN <<Head(t)>> \o JsonUnescape(Tail(t))
    ELSE LET e == t[2]
         IN  IF e = 117
             THEN <<HexValue(t[3]) * 4096 + HexValue(t[4]) * 256
                        + HexValue(t[5]) * 16 + HexValue(t[6])>>
                      \o JsonUnescape(SubSeq(t, 7, Len(t)))
             ELSE <<CASE e = 110 -> 10
                      [] e = 114 -> 13
                      [] e = 116 -> 9
                      [] e = 98 -> 8
                      [] e = 102 -> 12
                      [] OTHER -> e>> \o JsonUnescape(SubSeq(t, 3, Len(t)))

\* json.loads of the JSON text of a string
json_loads_str(t) == JsonUnescape(SubSeq(t, 2, Len(t) - 1))

\* the JSON literal true
JsonTrue == <<116, 114, 117, 101>>

\* json.dump(config_data, f): the document written, a mapping from keys to
\* the JSON text of their values
json_dump(username, token, setup_date) ==
    [kind |-> "dict",
     fields |-> [k \in {"username", "token", "setup_date", "termux_optimized"} |->
                    CASE k = "username" -> json_dumps_str(username)
                      [] k = "token" -> json_dumps_str(token)
                      [] k = "setup_date" -> json_dumps_str(setup_date)
                      [] OTHER -> JsonTrue]]

\* config_data.get(key, ''), for a parsed document that is a mapping
dict_get(doc, key) ==
    IF key \in DOMAIN doc.fields THEN json_loads_str(doc.fields[key]) ELSE <<>>

(***************************************************************************)
(* Inputs and the environment                                              *)
(***************************************************************************)

\* how many methods a client calls on the commander it has constructed
MaxCalls == 1

\* how many rounds of the menu of gh.py run a function
MaxRounds == 2

\* what input() does: it returns the line typed, or raises
Line(s) == [k |-> "line", s |-> s]
Raises(e) == [k |-> e, s |-> <<>>]
InputRaises == {Raises("EOFError"), Raises("KeyboardInterrupt")}
UsernameInputs == {Line(s) : s \in TypedUsernames} \cup InputRaises
TokenInputs == {Line(s) : s \in TypedTokens} \cup InputRaises

\* datetime.now().isoformat(): "2024-05-01T10:00:00"
Clock ==
    {<<50, 48, 50, 52, 45, 48, 53, 45, 48, 49, 84, 49, 48, 58, 48, 48, 58, 48, 48>>}

\* a profile written by an earlier run: octocat, the token of "abc123"
OldProfile ==
    json_dump(<<111, 99, 116, 111, 99, 97, 116>>,
              <<66, 90, 55, 77, 51, 101, 115, 81, 115, 86, 103, 108, 84, 55,
                88, 67, 109, 87, 90, 85, 115, 113, 90, 114, 82, 55, 103, 109,
                51, 80, 50, 72>>,
              <<50, 48, 50, 52, 45, 48, 53, 45, 48, 49, 84, 49, 48, 58, 48, 48,
                58, 48, 48>>)

\* the documents a profile file may hold when the program starts: text that
\* is no JSON, a JSON list, a mapping without the two fields, a profile
NoFields == [k \in {} |-> <<>>]
InitialDocs ==
    {[kind |-> "garbage", fields |-> NoFields],
     [kind |-> "list", fields |-> NoFields],
     [kind |-> "dict", fields |-> NoFields],
     OldProfile}

\* the profile file: whether it exists, whether open(..., 'r') and
\* open(..., 'w') succeed (for a missing file: whether it can be created)
InitialFiles ==
    {[exists |-> FALSE, readable |-> FALSE, writable |-> w,
      doc |-> [kind |-> "garbage", fields |-> NoFields]] : w \in BOOLEAN}
    \cup {[exists |-> TRUE, readable |-> FALSE, writable |-> w,
           doc |-> OldProfile] : w \in BOOLEAN}
    \cup {[exists |-> TRUE, readable |-> TRUE, writable |-> w, doc |-> d] :
             w \in BOOLEAN, d \in InitialDocs}

\* no profile file, in a directory where one can be created
NoProfile ==
    [exists |-> FALSE, readable |-> FALSE, writable |-> TRUE,
     doc |-> [kind |-> "garbage", fields |-> NoFields]]

\* GitHubConfig(): the dataclass defaults
GitHubConfig == [username |-> <<>>, token |-> <<>>, termux_mode |-> TRUE]

(***************************************************************************)
(* State                                                                   *)
(***************************************************************************)

VARIABLES
    prog,          \* "flower": flower.py runs as a script; "gh": gh.py runs as
                   \* a script; "client": a program that imports flower and
                   \* calls the methods of a GitHubTermuxCommander
    pc,            \* where the program is
    argv,          \* args.command of flower.py ("none": no command given)
    env,           \* [termux, git]: PREFIX names Termux, git is installed
    file,          \* the profile file config.json
    config,        \* self.config
    exc,           \* the exception the last operation raised, or "none"
    ended,         \* "no", or how the process ended
    out,           \* the messages the last operation printed
    api,           \* the _github_api calls of the last operation, in order
    procs,         \* the subprocesses the last operation ran, in order
    lastOp,        \* the last operation that ran
    nLoad,         \* how many times _load_config was entered
    nCreate,       \* how many times _create_config was entered
    nOps,          \* how many operations the client, or menu rounds gh.py, ran
    created,       \* what the last _create_config that returned had stored
    encLog,        \* (argument, result) of the _encrypt_data calls so far
    nEnc,          \* how many times _encrypt_data was called
    apiFailures    \* how many _github_api calls before the last operation
                   \* ended in the except clause

vars ==
    <<prog, pc, argv, env, file, config, exc, ended, out, api, procs, lastOp,
      nLoad, nCreate, nOps, created, encLog, nEnc, apiFailures>>

(***************************************************************************)
(* GitHubTermuxCommander: the profile                                      *)
(***************************************************************************)

\* a _create_config without the call of _encrypt_data: the secret typed is
\* kept and written as it is
_create_config_plain(cfg, f, iu, it, now) ==
    LET cfg1 == [cfg EXCEPT !.username = strip(iu.s)]
        raw == strip(it.s)
        cfg2 == [cfg1 EXCEPT !.token = raw]
        setup == {"Initial Setup Required"}
    IN  IF iu.k # "line"
        THEN [config |-> cfg, file |-> f, exc |-> iu.k, out |-> setup,
              hashed |-> {}, entered |-> TRUE]
        ELSE IF it.k # "line"
        THEN [config |-> cfg1, file |-> f, exc |-> it.k, out |-> setup,
              hashed |-> {}, entered |-> TRUE]
        ELSE IF ~f.writable
        THEN [config |-> cfg2, file |-> f, exc |-> "PermissionError",
              out |-> setup, hashed |-> {}, entered |-> TRUE]
        ELSE [config |-> cfg2,
              file |-> [exists |-> TRUE,
                        readable |-> IF f.exists THEN f.readable ELSE TRUE,
                        writable |-> TRUE,
                        doc |-> json_dump(cfg2.username, cfg2.token, now)],
              exc |-> "none",
              out |-> setup \cup {"Configuration saved securely"},
              hashed |-> {}, entered |-> TRUE]

\* _create_config: iu and it are what the two input() calls do, now is the
\* clock.  The result is the profile in memory and on disk afterwards, the
\* exception that escapes ("none": the method returns) and what was hashed.
_create_config(cfg, f, iu, it, now) ==
    LET cfg1 == [cfg EXCEPT !.username = strip(iu.s)]
        raw == strip(it.s)
        cfg2 == [cfg1 EXCEPT !.token = _encrypt_data(raw)]
        setup == {"Initial Setup Required"}
    IN  IF iu.k # "line"
        THEN [config |-> cfg, file |-> f, exc |-> iu.k, out |-> setup,
              hashed |-> {}, entered |-> TRUE]
        ELSE IF it.k # "line"
        THEN [config |-> cfg1, file |-> f, exc |-> it.k, out |-> setup,
              hashed |-> {}, entered |-> TRUE]
        ELSE IF ~f.writable
        THEN [config |-> cfg2, file |-> f, exc |-> "PermissionError",
              out |-> setup, hashed |-> {<<raw, cfg2.token>>}, entered |-> TRUE]
        ELSE [config |-> cfg2,
              file |-> [exists |-> TRUE,
                        readable |-> IF f.exists THEN f.readable ELSE TRUE,
                        writable |-> TRUE,
                        doc |-> json_dump(cfg2.username, cfg2.token, now)],
              exc |-> "none",
              out |-> setup \cup {"Configuration saved securely"},
              hashed |-> {<<raw, cfg2.token>>}, entered |-> TRUE]

\* the try block of _load_config: "loaded", or the exception it raises
LoadTry(f) ==
    IF ~f.readable THEN "PermissionError"
    ELSE IF f.doc.kind = "garbage" THEN "JSONDecodeError"
    ELSE IF f.doc.kind # "dict" THEN "AttributeError"
    ELSE "loaded"

\* a _load_config that reads the username and leaves the token as it was
_load_config_username_only(cfg, f, iu, it, now) ==
    IF f.exists
    THEN IF LoadTry(f) = "loaded"
         THEN [config |-> [cfg EXCEPT !.username = dict_get(f.doc, "username")],
               file |-> f, exc |-> "none", out |-> {"Configuration loaded"},
               hashed |-> {}, entered |-> FALSE]
         ELSE _create_config(cfg, f, iu, it, now)
    ELSE _create_config(cfg, f, iu, it, now)

\* a _load_config whose except clause names json.JSONDecodeError: the other
\* exceptions of the try block leave the method
_load_config_narrow_except(cfg, f, iu, it, now) ==
    IF f.exists
    THEN IF LoadTry(f) = "loaded"
         THEN [config |-> [cfg EXCEPT !.username = dict_get(f.doc, "username"),
                                      !.token = dict_get(f.doc, "token")],
               file |-> f, exc |-> "none", out |-> {"Configuration loaded"},
               hashed |-> {}, entered |-> FALSE]
         ELSE IF LoadTry(f) = "JSONDecodeError"
         THEN _create_config(cfg, f, iu, it, now)
         ELSE [config |-> cfg, file |-> f, exc |-> LoadTry(f), out |-> {},
               hashed |-> {}, entered |-> FALSE]
    ELSE _create_config(cfg, f, iu, it, now)

\* _load_config
_load_config(cfg, f, iu, it, now) ==
    IF f.exists
    THEN IF LoadTry(f) = "loaded"
         THEN [config |-> [cfg EXCEPT !.username = dict_get(f.doc, "username"),
                                      !.token = dict_get(f.doc, "token")],
               file |-> f, exc |-> "none", out |-> {"Configuration loaded"},
               hashed |-> {}, entered |-> FALSE]
         ELSE _create_config(cfg, f, iu, it, now)
    ELSE _create_config(cfg, f, iu, it, now)

\* what the prompts of an operation do: nothing is typed where
\* _load_config reads the profile and asks nothing
Prompts(f, inputs) ==
    IF f.exists /\ LoadTry(f) = "loaded" THEN {Raises("EOFError")} ELSE inputs

\* _setup_environment: the mode, and in Termux the installation of a
\* missing git, which succeeds (ok) or fails
_setup_environment(cfg, e, ok) ==
    [config |-> [cfg EXCEPT !.termux_mode = e.termux],
     env |-> IF e.termux /\ ~e.git THEN [e EXCEPT !.git = ok] ELSE e]

\* what a _create_config that returned has stored
Created(r, it) ==
    IF r.entered /\ r.exc = "none"
    THEN [ok |-> TRUE, typed |-> it.s, username |-> r.config.username,
          token |-> r.config.token]
    ELSE created

NothingCreated ==
    [ok |-> FALSE, typed |-> <<>>, username |-> <<>>, token |-> <<>>]

(***************************************************************************)
(* GitHubTermuxCommander._github_api                                       *)
(***************************************************************************)

\* a parsed JSON value: its Python type, for a dict the keys whose values
\* are true in a condition, for a list its length
JVal(t, keys, n) == [t |-> t, keys |-> keys, n |-> n]

\* {}
EmptyDict == JVal("dict", {}, 0)

\* the bodies a response may carry
BodyEmpty == ""
BodyHtml == "<html>502 Bad Gateway</html>"
BodyEmptyObject == "{}"
BodyUser == "{\"login\": \"octocat\", \"public_repos\": 2, \"created_at\": \"2011-01-25T18:44:36Z\"}"
BodyRepo == "{\"id\": 1296269, \"ssh_url\": \"git@github.com:octocat/app.git\", \"clone_url\": \"https://github.com/octocat/app.git\"}"
BodySearch == "{\"total_count\": 1, \"items\": [{\"full_name\": \"octocat/app\", \"description\": null, \"stargazers_count\": 1, \"forks_count\": 0, \"language\": null}]}"
BodyRepoList == "[{\"name\": \"app\", \"description\": null, \"html_url\": \"https://github.com/octocat/app\"}]"

Bodies ==
    {BodyEmpty, BodyHtml, BodyEmptyObject, BodyUser, BodyRepo, BodySearch,
     BodyRepoList}

\* response.json(): the parsed body, type "error" when the body is no JSON
json_loads(body) ==
    CASE body = BodyEmptyObject -> EmptyDict
      [] body = BodyUser -> JVal("dict", {"login", "public_repos", "created_at"}, 0)
      [] body = BodyRepo -> JVal("dict", {"id", "ssh_url", "clone_url"}, 0)
      [] body = BodySearch -> JVal("dict", {"total_count", "items"}, 0)
      [] body = BodyRepoList -> JVal("list", {}, 1)
      [] OTHER -> JVal("error", {}, 0)

\* what the network does with a request: the call of requests raises, or a
\* response with a status and a body arrives
Responses ==
    {[fail |-> "ConnectionError", status |-> 0, body |-> BodyEmpty]}
    \cup {[fail |-> "none", status |-> 200, body |-> b] : b \in Bodies}
    \cup {[fail |-> "none", status |-> 204, body |-> BodyEmpty]}
    \cup {[fail |-> "none", status |-> st, body |-> b] :
             st \in {404, 500}, b \in {BodyHtml, BodyEmptyObject}}

\* the class and its subclasses in requests before 2.27, where
\* response.json() raises the ValueError of the json module
RequestExceptionBefore227 ==
    {"RequestException", "ConnectionError", "Timeout", "HTTPError"}

\* the exceptions `except requests.exceptions.RequestException` catches:
\* the class and its subclasses (response.json() raises
\* requests.exceptions.JSONDecodeError)
RequestException ==
    {"RequestException", "ConnectionError", "Timeout", "HTTPError",
     "JSONDecodeError"}

\* the methods a branch of _github_api dispatches
DispatchedMethods == {"GET", "POST", "PUT", "DELETE"}

\* requests whose Authorization header carries the token of GitHubConfig(),
\* the empty string, instead of self.config.token
ApiRequestsDefaultToken(token, endpoint, method, data) ==
    IF method \in DispatchedMethods
    THEN <<[verb |-> method,
            url |-> <<"https://api.github.com", endpoint>>,
            authorization |-> <<"token ", GitHubConfig.token>>,
            json |-> IF method \in {"POST", "PUT"} THEN data ELSE "absent"]>>
    ELSE <<>>

\* requests dispatched with json=data whatever the method
ApiRequestsJsonAlways(token, endpoint, method, data) ==
    IF method \in DispatchedMethods
    THEN <<[verb |-> method,
            url |-> <<"https://api.github.com", endpoint>>,
            authorization |-> <<"token ", token>>,
            json |-> data]>>
    ELSE <<>>

\* the requests a call dispatches: json is the json= argument, "absent"
\* when the call of requests passes none
ApiRequests(token, endpoint, method, data) ==
    IF method \in DispatchedMethods
    THEN <<[verb |-> method,
            url |-> <<"https://api.github.com", endpoint>>,
            authorization |-> <<"token ", token>>,
            json |-> IF method \in {"POST", "PUT"} THEN data ELSE "absent"]>>
    ELSE <<>>

\* response.raise_for_status() raises
StatusRaises(status) == status >= 400 /\ status < 600

\* the try block: the exception it raises, or "none" and the value returned
ApiTry(method, resp) ==
    IF method \notin DispatchedMethods
    THEN [exc |-> "UnboundLocalError", value |-> EmptyDict]
    ELSE IF resp.fail # "none"
    THEN [exc |-> resp.fail, value |-> EmptyDict]
    ELSE IF StatusRaises(resp.status)
    THEN [exc |-> "HTTPError", value |-> EmptyDict]
    ELSE IF resp.body = BodyEmpty
    THEN [exc |-> "none", value |-> EmptyDict]
    ELSE IF json_loads(resp.body).t = "error"
    THEN [exc |-> "JSONDecodeError", value |-> EmptyDict]
    ELSE [exc |-> "none", value |-> json_loads(resp.body)]

\* a _github_api that sends the request again after a failure
_github_api_retry(token, endpoint, method, data, resp) ==
    [endpoint |-> endpoint, method |-> method, data |-> data, resp |-> resp,
     sent |-> IF ApiTry(method, resp).exc \in RequestException
              THEN ApiRequests(token, endpoint, method, data)
                       \o ApiRequests(token, endpoint, method, data)
              ELSE ApiRequests(token, endpoint, method, data),
     result |-> ApiTry(method, resp).value,
     exc |-> IF ApiTry(method, resp).exc \in RequestException
             THEN "none" ELSE ApiTry(method, resp).exc,
     out |-> IF ApiTry(method, resp).exc \in RequestException
             THEN {"API Error"} ELSE {}]

\* _github_api: the call with what the network did (resp): the requests
\* dispatched, the value returned, the exception that escapes, the print
_github_api(token, endpoint, method, data, resp) ==
    [endpoint |-> endpoint, method |-> method, data |-> data, resp |-> resp,
     sent |-> ApiRequests(token, endpoint, method, data),
     result |-> ApiTry(method, resp).value,
     exc |-> IF ApiTry(method, resp).exc \in RequestException
             THEN "none" ELSE ApiTry(method, resp).exc,
     out |-> IF ApiTry(method, resp).exc \in RequestException
             THEN {"API Error"} ELSE {}]

(***************************************************************************)
(* Initial states                                                          *)
(***************************************************************************)

Commands ==
    {"clone", "create", "commit", "health", "search", "dashboard", "cleanup"}

Init ==
    /\ prog \in {"flower", "gh", "client"}
    /\ pc = "start"
    /\ argv \in IF prog = "flower" THEN Commands \cup {"none"} ELSE {"none"}
    /\ env \in IF prog = "client" THEN {[termux |-> FALSE, git |-> TRUE]}
               ELSE [termux : BOOLEAN, git : BOOLEAN]
    /\ file \in IF prog = "gh" THEN {NoProfile} ELSE InitialFiles
    /\ config = GitHubConfig
    /\ exc = "none"
    /\ ended = "no"
    /\ out = {}
    /\ api = <<>>
    /\ procs = <<>>
    /\ lastOp = "none"
    /\ nLoad = 0
    /\ nCreate = 0
    /\ nOps = 0
    /\ created = NothingCreated
    /\ encLog = {}
    /\ nEnc = 0
    /\ apiFailures = 0

(***************************************************************************)
(* GitHubTermuxCommander.__init__                                          *)
(***************************************************************************)

\* commander = GitHubTermuxCommander(), in main() of flower.py or in a client
Construct ==
    /\ pc = "construct"
    /\ \E iu \in Prompts(file, UsernameInputs), it \in Prompts(file, TokenInputs),
          now \in Clock, ok \in IF env.termux /\ ~env.git THEN BOOLEAN ELSE {TRUE} :
          LET s == _setup_environment(GitHubConfig, env, ok)
              r == _load_config(s.config, file, iu, it, now)
          IN  /\ env' = s.env
              /\ config' = r.config
              /\ file' = r.file
              /\ exc' = r.exc
              /\ out' = r.out
              /\ encLog' = encLog \cup r.hashed
              /\ nEnc' = nEnc + Cardinality(r.hashed)
              /\ nCreate' = IF r.entered THEN nCreate + 1 ELSE nCreate
              /\ created' = Created(r, it)
              /\ pc' = IF r.exc # "none" THEN "handler"
                       ELSE IF prog = "client" THEN "ready" ELSE "dispatch"
    /\ nLoad' = nLoad + 1
    /\ lastOp' = "__init__"
    /\ api' = <<>>
    /\ procs' = <<>>
    /\ UNCHANGED <<prog, argv, ended, nOps, apiFailures>>

(***************************************************************************)
(* A client calling the profile methods                                    *)
(***************************************************************************)

\* the client creates the commander
ClientStart ==
    /\ prog = "client"
    /\ pc = "start"
    /\ pc' = "construct"
    /\ UNCHANGED <<prog, argv, env, file, config, exc, ended, out, api, procs,
                   lastOp, nLoad, nCreate, nOps, created, encLog, nEnc, apiFailures>>

\* commander._load_config()
Client_load_config ==
    /\ prog = "client" /\ pc = "ready" /\ nOps < MaxCalls
    /\ \E iu \in Prompts(file, UsernameInputs), it \in Prompts(file, TokenInputs),
          now \in Clock :
          LET r == _load_config(config, file, iu, it, now)
          IN  /\ config' = r.config
              /\ file' = r.file
              /\ exc' = r.exc
              /\ out' = r.out
              /\ encLog' = encLog \cup r.hashed
              /\ nEnc' = nEnc + Cardinality(r.hashed)
              /\ nCreate' = IF r.entered THEN nCreate + 1 ELSE nCreate
              /\ created' = Created(r, it)
    /\ nLoad' = nLoad + 1
    /\ nOps' = nOps + 1
    /\ lastOp' = "_load_config"
    /\ api' = <<>>
    /\ procs' = <<>>
    /\ UNCHANGED <<prog, pc, argv, env, ended, apiFailures>>

\* commander._create_config()
Client_create_config ==
    /\ prog = "client" /\ pc = "ready" /\ nOps < MaxCalls
    /\ \E iu \in UsernameInputs, it \in TokenInputs, now \in Clock :
          LET r == _create_config(config, file, iu, it, now)
          IN  /\ config' = r.config
              /\ file' = r.file
              /\ exc' = r.exc
              /\ out' = r.out
              /\ encLog' = encLog \cup r.hashed
              /\ nEnc' = nEnc + Cardinality(r.hashed)
              /\ created' = Created(r, it)
    /\ nCreate' = nCreate + 1
    /\ nOps' = nOps + 1
    /\ lastOp' = "_create_config"
    /\ api' = <<>>
    /\ procs' = <<>>
    /\ UNCHANGED <<prog, pc, argv, env, ended, nLoad, apiFailures>>

\* commander._encrypt_data(data)
Client_encrypt_data ==
    /\ prog = "client" /\ pc = "ready" /\ nOps < MaxCalls
    /\ \E data \in EncryptInputs :
          encLog' = encLog \cup {<<data, _encrypt_data(data)>>}
    /\ nEnc' = nEnc + 1
    /\ nOps' = nOps + 1
    /\ lastOp' = "_encrypt_data"
    /\ exc' = "none"
    /\ out' = {}
    /\ api' = <<>>
    /\ procs' = <<>>
    /\ UNCHANGED <<prog, pc, argv, env, file, config, ended, nLoad, nCreate,
                   created, apiFailures>>

\* the client stops when the constructor raised
ClientHandler ==
    /\ prog = "client"
    /\ pc = "handler"
    /\ pc' = "done"
    /\ ended' = "client stopped"
    /\ UNCHANGED <<prog, argv, env, file, config, exc, out, api, procs, lastOp,
                   nLoad, nCreate, nOps, created, encLog, nEnc, apiFailures>>

(***************************************************************************)
(* GitHubTermuxCommander: the commands                                     *)
(***************************************************************************)

\* what a command did: the exception that escapes it, what it printed, its
\* _github_api calls and its subprocesses
Did(e, o, a, p) == [exc |-> e, out |-> o, api |-> a, procs |-> p]

\* a subprocess that ran, and how it ended ("ok": exit status 0)
Proc(cmd, rc) == [cmd |-> cmd, rc |-> rc]
RunOutcomes == {"ok", "fail"}

\* the answers to a yes/no prompt, and str.lower() of them
Answer(s) == [k |-> "line", s |-> s]
Answers ==
    {Answer("y"), Answer("Y"), Answer("n"), Answer("")}
    \cup {[k |-> "EOFError", s |-> ""], [k |-> "KeyboardInterrupt", s |-> ""]}
lower(s) == CASE s = "Y" -> "y" [] s = "N" -> "n" [] OTHER -> s

\* how many calls of a sequence of _github_api calls ended in the except clause
RECURSIVE FailedCalls(_)
FailedCalls(a) ==
    IF a = <<>> THEN 0
    ELSE (IF "API Error" \in Head(a).out THEN 1 ELSE 0) + FailedCalls(Tail(a))

\* _update_repo: git pull
_update_repo(e, o) ==
    IF ~e.git THEN Did("FileNotFoundError", {}, <<>>, <<>>)
    ELSE IF o = "ok"
    THEN Did("none", {"Repository updated"}, <<>>, <<Proc("git pull", o)>>)
    ELSE Did("none", {"Failed to update repository"}, <<>>, <<Proc("git pull", o)>>)

\* repo_smart_clone: exists is Path(repo_name).exists(), choice the answer
\* to "Update?", o how git ends; _post_clone_setup follows a clone
repo_smart_clone(e, exists, choice, o) ==
    IF exists /\ choice.k # "line"
    THEN Did(choice.k, {"Smart Cloning"}, <<>>, <<>>)
    ELSE IF exists /\ lower(choice.s) = "y"
    THEN [_update_repo(e, o) EXCEPT !.out = @ \cup {"Smart Cloning"}]
    ELSE IF ~e.git
    THEN Did("FileNotFoundError", {"Smart Cloning"}, <<>>, <<>>)
    ELSE IF o = "ok"
    THEN Did("none",
             {"Smart Cloning", "Successfully cloned", "Repository optimized for Termux"},
             <<>>,
             <<Proc("git clone", o), Proc("git config core.preloadindex", "ok"),
               Proc("git config core.fscache", "ok")>>)
    ELSE Did("none", {"Smart Cloning", "Failed to clone repository"}, <<>>,
             <<Proc("git clone", o)>>)

\* create_repo: resp is what the network does, now the answer to "Clone now?"
create_repo(e, cfg, resp, now, exists, choice, o) ==
    LET c == _github_api(cfg.token, "/user/repos", "POST", "dict", resp)
        clone == repo_smart_clone(e, exists, choice, o)
        made == c.out \cup {"Repository created successfully"}
    IN  IF c.result.t # "dict"
        THEN Did("AttributeError", c.out, <<c>>, <<>>)
        ELSE IF "id" \notin c.result.keys
        THEN Did("none", c.out \cup {"Failed to create repository"}, <<c>>, <<>>)
        ELSE IF ~cfg.termux_mode
        THEN Did("none", made, <<c>>, <<>>)
        ELSE IF now.k # "line"
        THEN Did(now.k, made, <<c>>, <<>>)
        ELSE IF lower(now.s) # "n"
        THEN Did(clone.exc, made \cup clone.out, <<c>>, clone.procs)
        ELSE Did("none", made, <<c>>, <<>>)

\* repo_health_check: gitdir is Path(".git").exists()
repo_health_check(e, gitdir, o1, o2, o3) ==
    Did("none",
        {"Repository Health Check",
         IF gitdir THEN "Repository is healthy" ELSE "Some issues detected"},
        <<>>,
        IF e.git
        THEN <<Proc("git remote -v", o1), Proc("git fetch --dry-run", o2),
               Proc("git lfs track", o3)>>
        ELSE <<>>)

\* termux_quick_commit: o1, o2, o3 are how git add, commit and push end
termux_quick_commit(e, o1, o2, o3) ==
    IF ~e.git THEN Did("FileNotFoundError", {}, <<>>, <<>>)
    ELSE IF o1 # "ok"
    THEN Did("none", {"Commit failed"}, <<>>, <<Proc("git add -A", o1)>>)
    ELSE IF o2 # "ok"
    THEN Did("none", {"Commit failed"}, <<>>,
             <<Proc("git add -A", o1), Proc("git commit -m", o2)>>)
    ELSE IF o3 # "ok"
    THEN Did("none", {"Commit failed"}, <<>>,
             <<Proc("git add -A", o1), Proc("git commit -m", o2),
               Proc("git push", o3)>>)
    ELSE Did("none", {"Quick commit completed"}, <<>>,
             <<Proc("git add -A", o1), Proc("git commit -m", o2),
               Proc("git push", o3)>>)

\* search_repos
search_repos(cfg, resp) ==
    LET c == _github_api(cfg.token, "/search/repositories?q=query", "GET", "None", resp)
    IN  IF c.result.t # "dict"
        THEN Did("AttributeError", c.out, <<c>>, <<>>)
        ELSE IF "items" \in c.result.keys
        THEN Did("none", c.out \cup {"Search Results"}, <<c>>, <<>>)
        ELSE Did("none", c.out \cup {"No repositories found"}, <<c>>, <<>>)

\* display_dashboard: r1 and r2 are what the network does with the two
\* requests, sliced the exception repos[:5] raises when repos is a dict
\* (TypeError before Python 3.12, KeyError from 3.12 on)
display_dashboard(cfg, r1, r2, sliced) ==
    LET c1 == _github_api(cfg.token, "/user", "GET", "None", r1)
        c2 == _github_api(cfg.token, "/user/repos?per_page=5", "GET", "None", r2)
        o == c1.out \cup c2.out \cup {"TERMUX_ASCII"}
    IN  IF c1.result.t # "dict"
        THEN Did("AttributeError", o, <<c1, c2>>, <<>>)
        ELSE IF c2.result.t # "list"
        THEN Did(sliced, o \cup {"User", "Recent Repositories"}, <<c1, c2>>, <<>>)
        ELSE Did("none", o \cup {"User", "Recent Repositories"}, <<c1, c2>>, <<>>)

\* cleanup_cache: unlinked tells whether every .pyc file could be removed
cleanup_cache(e, unlinked) ==
    IF ~e.git
    THEN Did("none", {"Cleaning up cache", "Cleanup failed"}, <<>>, <<>>)
    ELSE IF ~unlinked
    THEN Did("none", {"Cleaning up cache", "Cleanup failed"}, <<>>,
             <<Proc("git gc --aggressive --prune=now", "ok")>>)
    ELSE Did("none", {"Cleaning up cache", "Cleanup completed"}, <<>>,
             <<Proc("git gc --aggressive --prune=now", "ok")>>)

\* termux_notification: the subprocess it runs; no exception escapes it
termux_notification(cfg) ==
    IF cfg.termux_mode THEN <<Proc("termux-notification", "ok")>> ELSE <<>>

(***************************************************************************)
(* flower.py: main() and the __main__ guard                                *)
(***************************************************************************)

\* the classes `except Exception` does not catch
NotException == {"KeyboardInterrupt", "SystemExit"}

\* a main() that constructs the commander before it looks at the command
Main_parse_args_late ==
    /\ prog = "flower"
    /\ pc = "start"
    /\ pc' = "construct"
    /\ lastOp' = "parse_args"
    /\ UNCHANGED <<prog, argv, env, file, config, exc, ended, out, api, procs,
                   nLoad, nCreate, nOps, created, encLog, nEnc, apiFailures>>

\* main() up to the construction of the commander: without a command it
\* prints the help and sys.exit(1) ends the process
Main_parse_args ==
    /\ prog = "flower"
    /\ pc = "start"
    /\ IF argv = "none"
       THEN /\ pc' = "done"
            /\ exc' = "SystemExit"
            /\ ended' = "exit 1"
            /\ out' = {"help"}
       ELSE /\ pc' = "construct"
            /\ UNCHANGED <<exc, ended, out>>
    /\ lastOp' = "parse_args"
    /\ UNCHANGED <<prog, argv, env, file, config, api, procs, nLoad, nCreate,
                   nOps, created, encLog, nEnc, apiFailures>>

\* the dispatch of main(): the command runs and did what d says
Dispatched(d) ==
    /\ pc = "dispatch"
    /\ exc' = d.exc
    /\ out' = d.out
    /\ api' = d.api
    /\ procs' = d.procs
    /\ apiFailures' = apiFailures + FailedCalls(api)
    /\ pc' = IF d.exc = "none" THEN "notify" ELSE "handler"
    /\ lastOp' = argv
    /\ UNCHANGED <<prog, argv, env, file, config, ended, nLoad, nCreate, nOps,
                   created, encLog, nEnc>>

Main_clone ==
    /\ prog = "flower" /\ argv = "clone"
    /\ \E exists \in BOOLEAN, choice \in Answers, o \in RunOutcomes :
          Dispatched(repo_smart_clone(env, exists, choice, o))

Main_create ==
    /\ prog = "flower" /\ argv = "create"
    /\ \E resp \in Responses, now \in Answers, exists \in BOOLEAN,
          choice \in Answers, o \in RunOutcomes :
          Dispatched(create_repo(env, config, resp, now, exists, choice, o))

Main_commit ==
    /\ prog = "flower" /\ argv = "commit"
    /\ \E o1 \in RunOutcomes, o2 \in RunOutcomes, o3 \in RunOutcomes :
          Dispatched(termux_quick_commit(env, o1, o2, o3))

Main_health ==
    /\ prog = "flower" /\ argv = "health"
    /\ \E gitdir \in BOOLEAN, o1 \in RunOutcomes, o2 \in RunOutcomes,
          o3 \in RunOutcomes :
          Dispatched(repo_health_check(env, gitdir, o1, o2, o3))

Main_search ==
    /\ prog = "flower" /\ argv = "search"
    /\ \E resp \in Responses : Dispatched(search_repos(config, resp))

Main_dashboard ==
    /\ prog = "flower" /\ argv = "dashboard"
    /\ \E r1 \in Responses, r2 \in Responses, sliced \in {"TypeError", "KeyError"} :
          Dispatched(display_dashboard(config, r1, r2, sliced))

Main_cleanup ==
    /\ prog = "flower" /\ argv = "cleanup"
    /\ \E unlinked \in BOOLEAN : Dispatched(cleanup_cache(env, unlinked))

\* the completion notification, after which main() returns and the process
\* ends with status 0
Main_notify ==
    /\ prog = "flower"
    /\ pc = "notify"
    /\ procs' = procs \o termux_notification(config)
    /\ pc' = "done"
    /\ ended' = "exit 0"
    /\ UNCHANGED <<prog, argv, env, file, config, exc, out, api, lastOp, nLoad,
                   nCreate, nOps, created, encLog, nEnc, apiFailures>>

\* the last statement of the `except Exception` clause, sys.exiN: the
\* exception its evaluation raises
FlowerExit == "AttributeError"

\* the except clauses of the __main__ guard of flower.py, for the exception
\* e that left main(): how the process ends and the exception that is
\* then uncaught
flower_handler(e) ==
    IF e = "KeyboardInterrupt"
    THEN [ended |-> "exit 0", exc |-> "SystemExit",
          out |-> {"Operation cancelled by user"}]
    ELSE IF e \notin NotException
    THEN IF FlowerExit = "SystemExit"
         THEN [ended |-> "exit 1", exc |-> "SystemExit",
               out |-> {"Unexpected error"}]
         ELSE [ended |-> "traceback", exc |-> FlowerExit,
               out |-> {"Unexpected error"}]
    ELSE [ended |-> "exit 1", exc |-> e, out |-> {}]

Main_handler ==
    /\ prog = "flower"
    /\ pc = "handler"
    /\ ended' = flower_handler(exc).ended
    /\ exc' = flower_handler(exc).exc
    /\ out' = flower_handler(exc).out
    /\ pc' = "done"
    /\ UNCHANGED <<prog, argv, env, file, config, api, procs, lastOp, nLoad,
                   nCreate, nOps, created, encLog, nEnc, apiFailures>>

(***************************************************************************)
(* A client calling _github_api                                            *)
(***************************************************************************)

\* the arguments a client passes
Methods == DispatchedMethods \cup {"PATCH"}
Endpoints == {"/user", "/user/repos"}
Datas == {"dict"}

\* commander._github_api(endpoint, method, data)
Client_github_api ==
    /\ prog = "client" /\ pc = "ready" /\ nOps < MaxCalls
    /\ \E endpoint \in Endpoints, method \in Methods, data \in Datas,
          resp \in Responses :
          LET c == _github_api(config.token, endpoint, method, data, resp)
          IN  /\ api' = <<c>>
              /\ exc' = c.exc
              /\ out' = c.out
    /\ apiFailures' = apiFailures + FailedCalls(api)
    /\ nOps' = nOps + 1
    /\ lastOp' = "_github_api"
    /\ procs' = <<>>
    /\ UNCHANGED <<prog, pc, argv, env, file, config, ended, nLoad, nCreate,
                   created, encLog, nEnc>>

(***************************************************************************)
(* gh.py                                                                   *)
(***************************************************************************)

\* setup_termux: outside Termux it returns; in Termux shutil.which raises
\* NameError, shutil being a local name of main()
setup_termux(e) ==
    IF ~e.termux
    THEN Did("none", {"This tool is optimized for Termux"}, <<>>, <<>>)
    ELSE Did("NameError", {"Setting up Termux environment"}, <<>>, <<>>)

\* quick_clone: url is what input() does, o how git clone ends
quick_clone(e, url, o) ==
    IF url.k # "line" THEN Did(url.k, {}, <<>>, <<>>)
    ELSE IF ~e.git THEN Did("FileNotFoundError", {"Cloning"}, <<>>, <<>>)
    ELSE IF o = "ok"
    THEN Did("none", {"Cloning", "Successfully cloned", "Switched to"}, <<>>,
             <<Proc("git clone", o)>>)
    ELSE Did("none", {"Cloning", "Error"}, <<>>, <<Proc("git clone", o)>>)

\* git_status
git_status(e) ==
    IF ~e.git THEN Did("FileNotFoundError", {}, <<>>, <<>>)
    ELSE Did("none", {"status"}, <<>>, <<Proc("git status", "ok")>>)

\* quick_commit: message and push are what the two input() calls do
quick_commit(e, message, o, push) ==
    IF message.k # "line" THEN Did(message.k, {}, <<>>, <<>>)
    ELSE IF ~e.git THEN Did("FileNotFoundError", {}, <<>>, <<>>)
    ELSE IF o # "ok"
    THEN Did("none", {"Commit failed"}, <<>>,
             <<Proc("git add .", "ok"), Proc("git commit -m", o)>>)
    ELSE IF push.k # "line"
    THEN Did(push.k, {"Committed"}, <<>>,
             <<Proc("git add .", "ok"), Proc("git commit -m", o)>>)
    ELSE IF lower(push.s) = "y"
    THEN Did("none", {"Committed", "Pushed to GitHub"}, <<>>,
             <<Proc("git add .", "ok"), Proc("git commit -m", o),
               Proc("git push", "ok")>>)
    ELSE Did("none", {"Committed"}, <<>>,
             <<Proc("git add .", "ok"), Proc("git commit -m", o)>>)

\* search_repo: after the prompt, shutil.which raises NameError
search_repo(query) ==
    IF query.k # "line" THEN Did(query.k, {}, <<>>, <<>>)
    ELSE Did("NameError", {}, <<>>, <<>>)

\* the start of main(): the check for git
Gh_main ==
    /\ prog = "gh"
    /\ pc = "start"
    /\ LET d == IF env.git THEN Did("none", {}, <<>>, <<>>)
                ELSE [setup_termux(env) EXCEPT !.out = @ \cup {"Git not found"}]
       IN  /\ exc' = d.exc
           /\ out' = IF d.exc = "none" THEN d.out \cup {"GitHub Commander Ready"}
                     ELSE d.out
           /\ pc' = IF d.exc = "none" THEN "menu" ELSE "handler"
    /\ lastOp' = "main"
    /\ UNCHANGED <<prog, argv, env, file, config, ended, api, procs, nLoad,
                   nCreate, nOps, created, encLog, nEnc, apiFailures>>

\* the choices typed at the menu
Choices == {"1", "2", "3", "4", "5", "6", "7", "x"}

\* show_menu: the choice, "7" on KeyboardInterrupt; EOFError escapes
show_menu(typed) ==
    IF typed.k = "line" THEN Did("none", {"menu"}, <<>>, <<>>)
    ELSE IF typed.k = "KeyboardInterrupt" THEN Did("none", {"menu"}, <<>>, <<>>)
    ELSE Did(typed.k, {"menu"}, <<>>, <<>>)

MenuChoice(typed) == IF typed.k = "line" THEN typed.s ELSE "7"

MenuInputs ==
    {Answer(c) : c \in Choices}
    \cup {[k |-> "EOFError", s |-> ""], [k |-> "KeyboardInterrupt", s |-> ""]}

\* what is typed at the other prompts of gh.py
TextInputs ==
    {Answer("y"), Answer("")}
    \cup {[k |-> "EOFError", s |-> ""], [k |-> "KeyboardInterrupt", s |-> ""]}

\* the function a choice runs
GhCommand(choice, e, text, o, push) ==
    CASE choice = "1" -> quick_clone(e, text, o)
      [] choice = "2" -> git_status(e)
      [] choice = "3" -> quick_commit(e, text, o, push)
      [] choice = "4" -> search_repo(text)
      [] choice = "5" -> setup_termux(e)
      [] choice = "6" -> Did("none", {}, <<>>, <<Proc("ls -la", "ok")>>)
      [] OTHER -> Did("none", {"Invalid choice"}, <<>>, <<>>)

\* one round of the loop of main(): the menu, the function chosen, and
\* "Press Enter to continue"; choice 7 leaves the loop and main() returns
Gh_round ==
    /\ prog = "gh"
    /\ pc = "menu"
    /\ \E typed \in MenuInputs, text \in TextInputs, o \in RunOutcomes,
          push \in TextInputs, enter \in TextInputs :
          LET m == show_menu(typed)
              choice == MenuChoice(typed)
              d == GhCommand(choice, env, text, o, push)
          IN  /\ choice # "7" => nOps < MaxRounds
              /\ argv' = choice
              /\ IF m.exc # "none"
                 THEN /\ exc' = m.exc /\ out' = m.out /\ procs' = <<>>
                      /\ pc' = "handler" /\ ended' = ended
                 ELSE IF choice = "7"
                 THEN /\ exc' = "none" /\ out' = {"menu", "Goodbye"}
                      /\ procs' = <<>> /\ pc' = "done" /\ ended' = "exit 0"
                 ELSE IF d.exc # "none"
                 THEN /\ exc' = d.exc /\ out' = d.out /\ procs' = d.procs
                      /\ pc' = "handler" /\ ended' = ended
                 ELSE IF enter.k # "line"
                 THEN /\ exc' = enter.k /\ out' = d.out /\ procs' = d.procs
                      /\ pc' = "handler" /\ ended' = ended
                 ELSE /\ exc' = "none" /\ out' = d.out /\ procs' = d.procs
                      /\ pc' = "menu" /\ ended' = ended
    /\ nOps' = nOps + 1
    /\ lastOp' = "round"
    /\ UNCHANGED <<prog, env, file, config, api, nLoad, nCreate, created,
                   encLog, nEnc, apiFailures>>

\* the except clauses of the __main__ guard of gh.py: both print and the
\* script ends
gh_handler(e) ==
    IF e = "KeyboardInterrupt"
    THEN [ended |-> "exit 0", exc |-> "none", out |-> {"Operation cancelled"}]
    ELSE IF e \notin NotException
    THEN [ended |-> "exit 0", exc |-> "none", out |-> {"Error"}]
    ELSE [ended |-> "exit 1", exc |-> e, out |-> {}]

Gh_handler ==
    /\ prog = "gh"
    /\ pc = "handler"
    /\ ended' = gh_handler(exc).ended
    /\ exc' = gh_handler(exc).exc
    /\ out' = gh_handler(exc).out
    /\ pc' = "done"
    /\ UNCHANGED <<prog, argv, env, file, config, api, procs, lastOp, nLoad,
                   nCreate, nOps, created, encLog, nEnc, apiFailures>>

(***************************************************************************)
(* The specification                                                       *)
(***************************************************************************)

Next ==
    \/ Main_parse_args
    \/ Construct
    \/ Main_clone
    \/ Main_create
    \/ Main_commit
    \/ Main_health
    \/ Main_search
    \/ Main_dashboard
    \/ Main_cleanup
    \/ Main_notify
    \/ Main_handler
    \/ ClientStart
    \/ Client_load_config
    \/ Client_create_config
    \/ Client_encrypt_data
    \/ Client_github_api
    \/ ClientHandler
    \/ Gh_main
    \/ Gh_round
    \/ Gh_handler

Spec == Init /\ [][Next]_vars


(***************************************************************************)
(* Properties of _github_api                                               *)
(***************************************************************************)

\* the responses for which the except clause or the empty body decides
FailureOutcome(resp) ==
    \/ resp.fail # "none"
    \/ resp.status \in 400..599
    \/ resp.body = BodyEmpty
    \/ resp.body = BodyHtml

\* C1: for GET, POST, PUT and DELETE and every endpoint, a call of
\* _github_api whose request fails in transport, is answered with a 4xx or
\* 5xx status, or is answered successfully with an empty body or with a body
\* that is no JSON, raises nothing and returns {}.
C1_ApiReturnsEmptyOnFailure ==
    /\ \A i \in 1..Len(api) :
          (/\ api[i].method \in {"GET", "POST", "PUT", "DELETE"}
           /\ FailureOutcome(api[i].resp))
          => /\ api[i].exc = "none"
             /\ api[i].result = JVal("dict", {}, 0)
    /\ (/\ lastOp = "_github_api"
        /\ api[1].method \in {"GET", "POST", "PUT", "DELETE"}
        /\ FailureOutcome(api[1].resp))
       => exc = "none"

\* a DELETE answered 200 with a body that is no JSON returned {}
C1_Witness ==
    \E i \in 1..Len(api) :
        /\ api[i].method = "DELETE"
        /\ api[i].resp.fail = "none"
        /\ api[i].resp.status = 200
        /\ api[i].resp.body = BodyHtml
        /\ api[i].result = JVal("dict", {}, 0)
        /\ "API Error" \in api[i].out
        /\ exc = "none"

\* C6: a call answered with a 2xx status returns the parsed body when the
\* body is not empty and {} when it is empty; every request sent carries
\* the verb named by the method argument, and carries a JSON body only for
\* POST and PUT, where it is the data argument.
C6_ApiSuccessAndVerb ==
    \A i \in 1..Len(api) :
        /\ (/\ api[i].method \in {"GET", "POST", "PUT", "DELETE"}
            /\ api[i].resp.fail = "none"
            /\ api[i].resp.status \in 200..299)
           => /\ api[i].resp.body = BodyEmpty => api[i].result = JVal("dict", {}, 0)
              /\ api[i].resp.body \in Bodies \ {BodyEmpty, BodyHtml}
                 => /\ api[i].result = json_loads(api[i].resp.body)
                    /\ api[i].exc = "none"
                    /\ api[i].out = {}
              /\ api[i].resp.body = BodyRepoList => api[i].result.t = "list"
              /\ api[i].resp.body = BodyRepo => "id" \in api[i].result.keys
        /\ \A j \in 1..Len(api[i].sent) :
              /\ api[i].sent[j].verb = api[i].method
              /\ api[i].sent[j].json # "absent" <=> api[i].method \in {"POST", "PUT"}
              /\ api[i].method \in {"POST", "PUT"} => api[i].sent[j].json = api[i].data

\* a PUT answered 200 with a repository returned it, and sent its data
C6_Witness ==
    \E i \in 1..Len(api) :
        /\ api[i].method = "PUT"
        /\ api[i].resp.status = 200
        /\ api[i].resp.body = BodyRepo
        /\ "id" \in api[i].result.keys
        /\ Len(api[i].sent) = 1
        /\ api[i].sent[1].verb = "PUT"
        /\ api[i].sent[1].json = "dict"

\* C7: a call of _github_api sends at most one request, also when it
\* fails; a call that follows a failed call sends its one request and its
\* result is decided by its own response.
C7_OneRequestPerCall ==
    \A i \in 1..Len(api) :
        /\ Len(api[i].sent) <= 1
        /\ api[i].method \in {"GET", "POST", "PUT", "DELETE"} => Len(api[i].sent) = 1
        /\ (/\ \/ apiFailures > 0
               \/ \E k \in 1..(i - 1) : "API Error" \in api[k].out
            /\ api[i].method \in {"GET", "POST", "PUT", "DELETE"}
            /\ api[i].resp.fail = "none"
            /\ api[i].resp.status \in 200..299
            /\ api[i].resp.body \in Bodies \ {BodyEmpty, BodyHtml})
           => /\ api[i].result = json_loads(api[i].resp.body)
              /\ api[i].out = {}

\* the first call of the dashboard failed after one request, and the second
\* call sent its own request and returned the list of repositories
C7_Witness ==
    /\ Len(api) = 2
    /\ api[1].resp.fail = "ConnectionError"
    /\ "API Error" \in api[1].out
    /\ Len(api[1].sent) = 1
    /\ Len(api[2].sent) = 1
    /\ api[2].resp.status = 200
    /\ api[2].result.t = "list"

(***************************************************************************)
(* Properties of the profile                                               *)
(***************************************************************************)

\* the file holds a profile _load_config reads: a mapping with both fields
ValidProfile(f) ==
    /\ f.exists
    /\ f.readable
    /\ f.doc.kind = "dict"
    /\ {"username", "token"} \subseteq DOMAIN f.doc.fields

\* the file is missing, unreadable, no JSON, or JSON that is no mapping
BrokenProfile(f) ==
    \/ ~f.exists
    \/ ~f.readable
    \/ f.doc.kind \in {"garbage", "list"}

\* C2: when the profile file exists and holds a mapping with username and
\* token, a _load_config leaves username and token in memory equal to the
\* fields persisted, does not enter _create_config, prompts for nothing,
\* raises nothing and leaves the file as it was.
C2_LoadValidProfile ==
    [][(nLoad' = nLoad + 1 /\ ValidProfile(file))
       => /\ file.doc.fields["username"] = json_dumps_str(config'.username)
          /\ file.doc.fields["token"] = json_dumps_str(config'.token)
          /\ nCreate' = nCreate
          /\ "Initial Setup Required" \notin out'
          /\ exc' = "none"
          /\ file' = file]_vars

\* a second _load_config read the profile of octocat from an earlier run
C2_Witness ==
    /\ lastOp = "_load_config"
    /\ nLoad = 2
    /\ nCreate = 0
    /\ "Configuration loaded" \in out
    /\ file.doc = OldProfile
    /\ config.username = <<111, 99, 116, 111, 99, 97, 116>>
    /\ Len(config.token) = 32

\* C3 as stated: when the profile file is missing, unreadable or corrupt,
\* _load_config enters _create_config and raises nothing.
C3_LoadNeverRaises ==
    [][(nLoad' = nLoad + 1 /\ BrokenProfile(file))
       => /\ nCreate' = nCreate + 1
          /\ exc' = "none"]_vars

\* C3: when the profile file is missing, unreadable or corrupt,
\* _load_config enters _create_config, and no error of reading or parsing
\* the file leaves it; the exceptions that leave it are those of
\* _create_config: EOFError or KeyboardInterrupt from a prompt, and the
\* error of opening the file for writing, after which the file is as it
\* was.  When nothing is raised the profile was saved.
C3_LoadFallsBackToCreate ==
    [][(nLoad' = nLoad + 1 /\ BrokenProfile(file))
       => /\ nCreate' = nCreate + 1
          /\ "Initial Setup Required" \in out'
          /\ exc' \in {"none", "EOFError", "KeyboardInterrupt", "PermissionError"}
          /\ exc' = "PermissionError" => ~file.writable
          /\ exc' # "none" => file' = file
          /\ exc' = "none"
             => /\ "Configuration saved securely" \in out'
                /\ ValidProfile([file' EXCEPT !.readable = TRUE])]_vars

\* the constructor found a JSON list in the file, entered _create_config,
\* and the error of opening the file for writing left _load_config
C3_Witness ==
    /\ lastOp = "__init__"
    /\ nLoad = 1
    /\ nCreate = 1
    /\ exc = "PermissionError"
    /\ file.readable
    /\ file.doc.kind = "list"
    /\ "Initial Setup Required" \in out

\* a _create_config has just returned
CreateReturned ==
    /\ lastOp \in {"__init__", "_load_config", "_create_config"}
    /\ "Configuration saved securely" \in out

\* the file holds the username and the token of the profile in memory
FileHoldsProfile ==
    /\ file.exists
    /\ file.doc.kind = "dict"
    /\ {"username", "token"} \subseteq DOMAIN file.doc.fields
    /\ file.doc.fields["username"] = json_dumps_str(config.username)
    /\ file.doc.fields["token"] = json_dumps_str(config.token)

\* C4 as stated: after _create_config returns the token in memory is
\* _encrypt_data of the secret typed, the file holds the username and token
\* in memory, and a _load_config that follows yields the same two.
C4_StoresHashOfTyped ==
    /\ CreateReturned
       => /\ config.token = _encrypt_data(created.typed)
          /\ FileHoldsProfile
    /\ (lastOp = "_load_config" /\ created.ok)
       => /\ config.username = created.username
          /\ config.token = created.token

\* C4: after _create_config returns, the token in memory is _encrypt_data
\* of the secret typed with the whitespace around it stripped, never that
\* secret itself, and the file holds the username and token in memory; a
\* _load_config that follows yields the same two when the file can be read.
C4_StoresHashOfStripped ==
    /\ CreateReturned
       => /\ config.token = _encrypt_data(strip(created.typed))
          /\ config.token # strip(created.typed)
          /\ config.token # created.typed
          /\ config.token = created.token
          /\ FileHoldsProfile
    /\ (lastOp = "_load_config" /\ created.ok /\ file.readable)
       => /\ config.username = created.username
          /\ config.token = created.token
          /\ FileHoldsProfile

\* a secret typed with whitespace around it was stored, and the
\* _load_config that followed read the profile back
C4_Witness ==
    /\ lastOp = "_load_config"
    /\ "Configuration loaded" \in out
    /\ created.ok
    /\ created.typed # strip(created.typed)
    /\ config.token = created.token
    /\ config.username = created.username
    /\ \E i \in 1..Len(config.username) : config.username[i] = 92

\* C5: two calls of _encrypt_data with the same argument return the same
\* string, in this run and in the run that wrote the profile of "abc123";
\* every result is 32 characters of the base64 alphabet; a call changes
\* neither the profile in memory nor the file.
C5_EncryptDeterministicPure ==
    [][/\ \A p \in encLog' :
             /\ Len(p[2]) = 32
             /\ \A i \in 1..Len(p[2]) : \E k \in 1..64 : p[2][i] = B64Alphabet[k]
             /\ p[1] = <<97, 98, 99, 49, 50, 51>>
                => json_dumps_str(p[2]) = OldProfile.fields["token"]
       /\ \A p \in encLog', q \in encLog' : p[1] = q[1] => p[2] = q[2]
       /\ (lastOp' = "_encrypt_data" /\ nEnc' = nEnc + 1)
          => UNCHANGED <<config, file, env, created>>]_vars

\* _encrypt_data was called twice with one argument and returned one result
C5_Witness ==
    /\ lastOp = "_encrypt_data"
    /\ nEnc = 2
    /\ Cardinality(encLog) = 1
    /\ \A p \in encLog : Len(p[2]) = 32

(***************************************************************************)
(* Properties of the entry points                                          *)
(***************************************************************************)

\* C8: in flower.py and in gh.py, when an exception leaves main() the
\* handler of the __main__ guard prints a message and the process exits;
\* the handler raises nothing, so that no run ends in a traceback.
C8_HandlerExitsCleanly ==
    (prog \in {"flower", "gh"} /\ pc = "done")
    => /\ ended \in {"exit 0", "exit 1"}
       /\ exc \in {"none", "SystemExit"}

\* C9: when every _github_api call of display_dashboard, search_repos or
\* create_repo returned {} after a failed request, the command printed a
\* message and returned without raising.
C9_CommandsSurviveFailedCall ==
    (/\ prog = "flower"
     /\ lastOp \in {"dashboard", "search", "create"}
     /\ pc \in {"notify", "handler"}
     /\ \A i \in 1..Len(api) :
           "API Error" \in api[i].out /\ api[i].result = JVal("dict", {}, 0))
    => /\ exc = "none"
       /\ out # {}

\* C10: in a run of flower.py, when a command is dispatched or a
\* _github_api call is made, _load_config has run exactly once, as part of
\* the constructor, _create_config at most once, and the constructor has
\* returned; a run without a command ends with status 1 and has not
\* entered _load_config or _create_config, nor called _github_api.
C10_InitOnceBeforeDispatch ==
    prog = "flower"
    => /\ nLoad <= 1
       /\ nCreate <= nLoad
       /\ (pc \in {"dispatch", "notify"} \/ lastOp \in Commands \/ api # <<>>)
          => /\ nLoad = 1
             /\ argv \in Commands
       /\ pc = "dispatch" => (lastOp = "__init__" /\ exc = "none")
       /\ (lastOp = "__init__" /\ exc # "none") => (api = <<>> /\ pc \in {"handler", "done"})
       /\ lastOp \notin Commands => api = <<>>
       /\ argv = "none"
          => /\ nLoad = 0
             /\ nCreate = 0
             /\ api = <<>>
             /\ config = GitHubConfig
             /\ pc \in {"start", "done"}
             /\ pc = "done" => ended = "exit 1"

\* the dashboard made its two calls after the one initialization, which
\* had created the profile
C10_Witness ==
    /\ prog = "flower"
    /\ lastOp = "dashboard"
    /\ Len(api) = 2
    /\ nLoad = 1
    /\ nCreate = 1
    /\ created.ok

(***************************************************************************)
(* Properties of the commands                                              *)
(***************************************************************************)

\* the step is a command of main(), the notification after it, or a
\* _github_api call of a client: the commander has been constructed
CommandStep ==
    \/ prog = "flower" /\ pc \in {"dispatch", "notify"}
    \/ prog = "client" /\ lastOp' = "_github_api" /\ nOps' = nOps + 1

\* C11: once the commander is constructed, a command (clone, create,
\* commit, health, search, dashboard, cleanup), the notification and a
\* _github_api call leave the username and the token in memory and the
\* profile file as they were, and enter neither _load_config nor
\* _create_config; the Authorization header of every request they send is
\* "token " followed by the token the profile held before the step.
C11_ProfileFixedAfterLoad ==
    [][CommandStep
       => /\ config'.username = config.username
          /\ config'.token = config.token
          /\ file' = file
          /\ nLoad' = nLoad
          /\ nCreate' = nCreate
          /\ \A i \in 1..Len(api') :
                \A j \in 1..Len(api'[i].sent) :
                    api'[i].sent[j].authorization = <<"token ", config.token>>]_vars

\* the search ran with the profile _create_config had stored: its request
\* carried that token, and the profile in memory and on disk still hold it
C11_Witness ==
    /\ prog = "flower"
    /\ lastOp = "search"
    /\ ended = "exit 0"
    /\ created.ok
    /\ Len(api) = 1
    /\ Len(api[1].sent) = 1
    /\ api[1].sent[1].authorization = <<"token ", created.token>>
    /\ config.token = created.token
    /\ Len(config.token) = 32
    /\ FileHoldsProfile

\* the commands of git add, git commit and git push, in that order
CommitSteps == <<"git add -A", "git commit -m", "git push">>

\* C12: termux_quick_commit runs git add, git commit and git push in that
\* order and stops at the first step that fails: no step runs after a
\* failed one, "Quick commit completed" is printed only when all three
\* succeeded, and a failed step is reported with "Commit failed" and
\* nothing is raised to the caller.
C12_QuickCommitStopsAtFailure ==
    (prog = "flower" /\ lastOp = "commit" /\ pc \in {"notify", "handler"})
    => /\ Len(procs) <= 3
       /\ \A i \in 1..Len(procs) : procs[i].cmd = CommitSteps[i]
       /\ \A i \in 1..(Len(procs) - 1) : procs[i].rc = "ok"
       /\ "Quick commit completed" \in out
          <=> (Len(procs) = 3 /\ \A i \in 1..3 : procs[i].rc = "ok")
       /\ "Quick commit completed" \notin out => "Commit failed" \in out
       /\ exc = "none"

====
